---- MODULE Spec2Model ----
(***************************************************************************)
(* Model of src/two_heads/ImagePairOverlapFunctionAngleOrientationSequence *)
(* .py: the keras Sequence that serves batches of image pairs.             *)
(*                                                                         *)
(* Conventions                                                             *)
(*  - Python sequences are TLA+ sequences; Python index k is TLA+ index    *)
(*    k + 1.  PyGet / PyIdxOK give numpy's indexing, negative indices      *)
(*    included.                                                            *)
(*  - A sample of a tensor is a function column -> channel -> pixel; the   *)
(*    height axis is left out because no statement of the code treats two  *)
(*    rows of an image differently.                                        *)
(*  - A pixel records where it was loaded from (leg, file, modality,       *)
(*    channel of the modality, column), so that the channel layout and the *)
(*    circular shift can be read back from the tensor.                     *)
(*  - orientation holds halves (3 stands for 1.5) so that int() truncates. *)
(*  - function_angle and overlap hold tenths (7 stands for 0.7).           *)
(*  - random.randint is a nondeterministic choice in its range; rng_draws  *)
(*    is the position in the generator's sequence since random.seed(1234). *)
(***************************************************************************)
EXTENDS Integers, Sequences, FiniteSets, TLC

\* ------------------------------------------------------------------ bounds
MaxN == 3
MaxBatch == 2
MaxWidth == 2
MaxM == 2
MaxChannels == 25
MaxPasses == 2
MaxPassN == 2

VARIABLES
  n, batch_size, width, network_output_size, no_channels,
  use_depth, use_normals, use_class_probabilities,
  use_class_probabilities_pca, use_intensity,
  rotate_data, do_rotation,
  imgfilenames1, imgfilenames2, overlap, function_angle, orientation,
  random_rotate, rng_draws,
  pc, call_idx, x1, x2, totalidxs, y, exc, ret

fields == <<n, batch_size, width, network_output_size, no_channels,
            use_depth, use_normals, use_class_probabilities,
            use_class_probabilities_pca, use_intensity,
            rotate_data, do_rotation,
            imgfilenames1, imgfilenames2, overlap, function_angle, orientation>>

vars == <<fields, random_rotate, rng_draws,
          pc, call_idx, x1, x2, totalidxs, y, exc, ret>>

\* ------------------------------------------------------- python primitives
Min(a, b) == IF a < b THEN a ELSE b

Max(a, b) == IF a > b THEN a ELSE b

\* s[k] of a numpy array / list of length Len(s): valid for -len <= k < len
PyIdxOK(k, len) == -len <= k /\ k < len

PyGet(s, k) == IF k < 0 THEN s[Len(s) + k + 1] ELSE s[k + 1]

\* s[lo:hi] for 0 <= lo, 0 <= hi
PySlice(s, lo, hi) == [i \in 1..Max(0, Min(hi, Len(s)) - lo) |-> s[lo + i]]

\* int(v) of a float given in halves: truncation towards zero
IntCast(h) == IF h >= 0 THEN h \div 2 ELSE -((-h) \div 2)

\* random.randint(a, b): a <= result <= b, both ends included
randint(a, b) == a..b

\* np.roll(sample, shift, axis=1): column p moves to column (p + shift) mod width
roll(s, shift) == [w \in 1..width |-> s[((w - 1 - shift) % width) + 1]]

\* ----------------------------------------------------------- construction
NoExc == [type |-> "none", line |-> 0]

NoRet == [returned |-> FALSE, inputs |-> <<>>, targets |-> <<>>]

\* the arrays random.randint can produce for range(0, n)
Schedules == [1..n -> randint(0, width)]

\* state common to every constructed generator
Constructed ==
  /\ imgfilenames1 = [i \in 1..n |-> i - 1]
  /\ imgfilenames2 \in {<<>>, [i \in 1..n |-> i - 1]}
  /\ do_rotation = (rotate_data > 0)
  /\ IF rotate_data > 0
       THEN random_rotate \in Schedules /\ rng_draws = n
       ELSE random_rotate = <<>> /\ rng_draws = 0
  /\ pc = "constructed"
  /\ call_idx = 0
  /\ x1 = <<>> /\ x2 = <<>> /\ totalidxs = <<>> /\ y = <<>>
  /\ exc = NoExc
  /\ ret = NoRet

DefaultFlags ==
  /\ no_channels = 4
  /\ use_depth = TRUE /\ use_normals = TRUE
  /\ use_class_probabilities = FALSE
  /\ use_class_probabilities_pca = FALSE
  /\ use_intensity = FALSE

DefaultLabels ==
  /\ network_output_size = MaxM
  /\ overlap = [i \in 1..n |-> 3]
  /\ function_angle = [i \in 1..n |-> 7]
  /\ orientation = [i \in 1..n |-> 0]

\* datasets of every length, batch size and width, without rotation and
\* with the fixed schedule
InitBatching ==
  /\ n \in 0..MaxN
  /\ batch_size \in 1..MaxBatch
  /\ width \in 1..MaxWidth
  /\ rotate_data \in 0..1
  /\ DefaultFlags
  /\ DefaultLabels
  /\ Constructed

\* generators that draw a new schedule in every pass (the width only sets
\* the range of the draws: 0..1 and 0..2)
InitPasses ==
  /\ n \in 0..MaxPassN
  /\ batch_size \in 1..MaxBatch
  /\ width \in 1..2
  /\ rotate_data = 2
  /\ DefaultFlags
  /\ DefaultLabels
  /\ Constructed

\* every label array, orientation outside [0, M) and fractional included
InitLabels ==
  /\ n \in 1..2
  /\ batch_size \in 1..MaxBatch
  /\ width = 1
  /\ rotate_data = 0
  /\ DefaultFlags
  /\ network_output_size \in 1..MaxM
  /\ overlap = [i \in 1..n |-> 3]
  /\ function_angle \in [1..n -> {0, 7}]
  /\ orientation \in [1..n -> (-(2 * MaxM + 1))..(2 * MaxM + 1)]
  /\ Constructed

\* every combination of modality flags and channel count
InitChannels ==
  /\ n = 1
  /\ batch_size = 1
  /\ width = MaxWidth
  /\ rotate_data \in 0..1
  /\ no_channels \in 1..MaxChannels
  /\ use_depth \in BOOLEAN /\ use_normals \in BOOLEAN
  /\ use_class_probabilities \in BOOLEAN
  /\ use_class_probabilities_pca \in BOOLEAN
  /\ use_intensity \in BOOLEAN
  /\ DefaultLabels
  /\ Constructed

Init == InitBatching \/ InitPasses \/ InitLabels \/ InitChannels

\* ------------------------------------------------------------- __len__
\* variant: floor division instead of the ceiling
len_floor ==
  n \div batch_size

__len__ ==
  IF n % batch_size = 0 THEN n \div batch_size ELSE n \div batch_size + 1


\* --------------------------------------------------- __getitem__: slicing
\* maxidx after the clamp to n
maxidx(idx) ==
  IF (idx + 1) * batch_size > n THEN n ELSE (idx + 1) * batch_size

\* size after the clamp to n
size(idx) ==
  IF (idx + 1) * batch_size > n THEN n - idx * batch_size ELSE batch_size

batch_f1(idx) == PySlice(imgfilenames1, idx * batch_size, maxidx(idx))

batch_f2(idx) == PySlice(imgfilenames2, idx * batch_size, maxidx(idx))

y_overlap(idx) == PySlice(overlap, idx * batch_size, maxidx(idx))

y_function_angle(idx) == PySlice(function_angle, idx * batch_size, maxidx(idx))

y_orientation(idx) == PySlice(orientation, idx * batch_size, maxidx(idx))

\* variant: offset counted from the end of the batch
totalidx_from_maxidx(idx, i) == maxidx(idx) + i

\* the totalidx argument of the leg-2 call for local offset i
totalidx(idx, i) == idx * size(idx) + i

\* variant: new random values on every call in mode 2
Regenerates_every_call(idx) == rotate_data = 2

\* variant: new random values at idx 0 in every rotation mode
Regenerates_any_mode(idx) == idx = 0 /\ rotate_data > 0

\* the condition under which a call draws new random values
Regenerates(idx) == idx = 0 /\ rotate_data = 2

\* truthiness of self.imgfilenames2
TwoLeg == imgfilenames2 # <<>>

\* ------------------------------------------------------- prepareOneInput
Zero == [leg |-> 0, file |-> 0, m |-> "zero", k |-> 0, col |-> 0]

\* np.zeros((height, width, no_channels)), one sample of the batch tensor
ZeroSample == [w \in 1..width |-> [c \in 1..no_channels |-> Zero]]

\* number of channels of the array stored for a modality
NumChannels(m) ==
  CASE m = "depth" -> 1
    [] m = "normal" -> 3
    [] m = "probability_pca" -> 3
    [] m = "probability" -> 20
    [] m = "intensity" -> 1

\* np.load of the file of one modality of one sample
Load(leg, file, m) ==
  [w \in 1..width |->
     [k \in 1..NumChannels(m) |->
        [leg |-> leg, file |-> file, m |-> m, k |-> k, col |-> w]]]

\* the directory the class probabilities are read from
ProbModality ==
  IF use_class_probabilities_pca THEN "probability_pca" ELSE "probability"

\* channelidx when each modality is reached
ChanDepth == 0

\* variant: channelidx not advanced after the depth map
ChanNormals_not_advanced == ChanDepth

ChanNormals == ChanDepth + (IF use_depth THEN 1 ELSE 0)

ChanProb == ChanNormals + (IF use_normals THEN 3 ELSE 0)

ChanIntensity ==
  ChanProb + (IF use_class_probabilities THEN NumChannels(ProbModality) ELSE 0)

\* x1[i, :, :, channelidx:channelidx+cnt] = img1 succeeds
FitsAt(channelidx, cnt) == channelidx + cnt <= no_channels

\* x1[i, :, :, channelidx:channelidx+cnt] = img1
WriteChannels(s, img, channelidx, cnt) ==
  [w \in 1..width |->
     [c \in 1..no_channels |->
        IF channelidx < c /\ c <= channelidx + cnt
          THEN img[w][c - channelidx]
          ELSE s[w][c]]]

\* one modality step: loads and writes when enabled; a write that does not
\* fit raises and leaves the sample as it was
Step(s, on, leg, file, m, channelidx) ==
  IF on /\ FitsAt(channelidx, NumChannels(m))
    THEN WriteChannels(s, Load(leg, file, m), channelidx, NumChannels(m))
    ELSE s

\* the sample after the four modality steps (before any shift)
Assemble(leg, file) ==
  LET s1 == Step(ZeroSample, use_depth, leg, file, "depth", ChanDepth)
      s2 == Step(s1, use_normals, leg, file, "normal", ChanNormals)
      s3 == Step(s2, use_class_probabilities, leg, file, ProbModality, ChanProb)
      s4 == Step(s3, use_intensity, leg, file, "intensity", ChanIntensity)
  IN  s4

\* every enabled modality fits into no_channels
Fits ==
  /\ use_depth => FitsAt(ChanDepth, 1)
  /\ use_normals => FitsAt(ChanNormals, 3)
  /\ use_class_probabilities => FitsAt(ChanProb, NumChannels(ProbModality))
  /\ use_intensity => FitsAt(ChanIntensity, 1)

\* the exception of the first write that does not fit
ShapeExc ==
  IF use_depth /\ ~FitsAt(ChanDepth, 1)
    THEN [type |-> "IndexError", line |-> 155]
  ELSE IF use_normals /\ ~FitsAt(ChanNormals, 3)
    THEN [type |-> "ValueError", line |-> 166]
  ELSE IF use_class_probabilities /\ ~FitsAt(ChanProb, NumChannels(ProbModality))
    THEN [type |-> "ValueError", line |-> IF use_class_probabilities_pca THEN 179 ELSE 182]
  ELSE [type |-> "IndexError", line |-> 210]

\* the exception of a file that cannot be read
LoadExc ==
  IF use_depth THEN [type |-> "Exception", line |-> 153]
  ELSE IF use_normals THEN [type |-> "Exception", line |-> 164]
  ELSE IF use_class_probabilities THEN [type |-> "IOError", line |-> 192]
  ELSE [type |-> "IOError", line |-> 208]

AnyModality ==
  use_depth \/ use_normals \/ use_class_probabilities \/ use_intensity

\* prepareOneInput on a zero sample, all files readable and fitting
prepareOneInput(leg, file, tidx, rotate, schedule) ==
  IF rotate
    THEN roll(Assemble(leg, file), PyGet(schedule, tidx))
    ELSE Assemble(leg, file)

\* --------------------------------------------------- __getitem__: targets
\* variant: the peak holds the overlap (the commented-out right-hand side)
y_item_overlap(idx, j) ==
  LET pos == IntCast(y_orientation(idx)[j + 1])
      at  == IF pos < 0 THEN pos + network_output_size ELSE pos
  IN  [p \in 1..network_output_size |->
         IF p - 1 = at THEN y_overlap(idx)[j + 1] ELSE 0]

\* y_item after the assignment of the peak
y_item(idx, j) ==
  LET pos == IntCast(y_orientation(idx)[j + 1])
      at  == IF pos < 0 THEN pos + network_output_size ELSE pos
  IN  [p \in 1..network_output_size |->
         IF p - 1 = at THEN y_function_angle(idx)[j + 1] ELSE 0]

\* y_item[int(y_orientation[j])] is a valid index
PeakOK(idx, j) ==
  PyIdxOK(IntCast(y_orientation(idx)[j + 1]), network_output_size)

\* ------------------------------------------------------ __getitem__
\* first local offset (from 1) whose leg-2 schedule lookup is out of bounds,
\* size + 1 when there is none
RotateStop(idx) ==
  LET bad == {i \in 1..size(idx) :
                TwoLeg /\ do_rotation /\ ~PyIdxOK(totalidx(idx, i - 1), n)}
  IN  IF bad = {} THEN size(idx) + 1
      ELSE CHOOSE i \in bad : \A j \in bad : i <= j

\* first local offset (from 0) whose orientation index is out of bounds,
\* size when there is none
PeakStop(idx) ==
  LET bad == {j \in 0..(size(idx) - 1) : ~PeakOK(idx, j)}
  IN  IF bad = {} THEN size(idx)
      ELSE CHOOSE j \in bad : \A k \in bad : j <= k

\* One call of __getitem__(idx).  fail = 0: every file can be read;
\* fail = k > 0: a file of the leg-1 sample at local offset k - 1 cannot.
\* schedule is the value of random_rotate the batch is assembled from.
GetItemFrom(idx, fail, schedule) ==
  LET sz       == size(idx)
      loadAt   == IF fail = 0 THEN sz + 1 ELSE fail
      shapeAt  == IF Fits THEN sz + 1 ELSE 1
      rotAt    == RotateStop(idx)
      stop     == Min(loadAt, Min(shapeAt, rotAt))
      cause    == IF stop > sz THEN "none"
                  ELSE IF stop = loadAt THEN "load"
                  ELSE IF stop = shapeAt THEN "shape"
                  ELSE "rotate"
      f1       == batch_f1(idx)
      f2       == batch_f2(idx)
      rows     == IF cause = "none" THEN PeakStop(idx) ELSE 0
      newx1    == [i \in 1..sz |->
                     IF i < stop \/ (i = stop /\ cause # "load")
                       THEN prepareOneInput(1, f1[i], 0, FALSE, schedule)
                       ELSE ZeroSample]
      newx2    == IF ~TwoLeg THEN <<>>
                  ELSE [i \in 1..sz |->
                     IF i < stop
                       THEN prepareOneInput(2, f2[i], totalidx(idx, i - 1),
                                            do_rotation, schedule)
                     ELSE IF i = stop /\ cause = "rotate"
                       THEN Assemble(2, f2[i])
                       ELSE ZeroSample]
      calls    == IF ~TwoLeg THEN 0
                  ELSE IF cause = "rotate" THEN stop
                  ELSE Min(stop - 1, sz)
      newy     == [j \in 1..rows |-> y_item(idx, j - 1)]
      newexc   == IF cause = "load" THEN LoadExc
                  ELSE IF cause = "shape" THEN ShapeExc
                  ELSE IF cause = "rotate" THEN [type |-> "IndexError", line |-> 214]
                  ELSE IF rows < sz THEN [type |-> "IndexError", line |-> 124]
                  ELSE IF TwoLeg THEN [type |-> "TypeError", line |-> 130]
                  ELSE NoExc
  IN  /\ x1' = newx1
      /\ x2' = newx2
      /\ totalidxs' = [i \in 1..calls |-> totalidx(idx, i - 1)]
      /\ y' = newy
      /\ exc' = newexc
      /\ ret' = IF newexc = NoExc
                  THEN [returned |-> TRUE, inputs |-> <<newx1>>, targets |-> newy]
                  ELSE NoRet
      /\ pc' = IF newexc = NoExc THEN "returned" ELSE "raised"
      /\ call_idx' = idx

__getitem__(idx, fail) ==
  /\ idx \in 0..(__len__ - 1)
  /\ fail \in 0..size(idx)
  /\ fail > 0 => AnyModality
  /\ IF Regenerates(idx)
       THEN /\ rng_draws < (1 + MaxPasses) * n
            /\ random_rotate' \in Schedules
            /\ rng_draws' = rng_draws + n
       ELSE UNCHANGED <<random_rotate, rng_draws>>
  /\ GetItemFrom(idx, fail, random_rotate')
  /\ UNCHANGED fields

Next == \E idx \in 0..MaxN, fail \in 0..MaxBatch : __getitem__(idx, fail)

Spec == Init /\ [][Next]_vars

\* ===================================================================
\* Properties
\* ===================================================================
\* a call got as far as the target loop: both tensors are fully assembled
Assembled == pc # "constructed" /\ exc.line \in {0, 124, 130}

\* global (python) index of the sample at local offset i (from 1) of the
\* batch last requested
Global(i) == call_idx * batch_size + (i - 1)

RECURSIVE CatBatches(_)
CatBatches(k) == IF k = 0 THEN <<>> ELSE CatBatches(k - 1) \o batch_f1(k - 1)

RECURSIVE SumSizes(_)
SumSizes(k) == IF k = 0 THEN 0 ELSE SumSizes(k - 1) + size(k - 1)

\* C1: length() is ceil(n / batch_size), i.e. the least k with
\* k * batch_size >= n; the slices served for idx = 0 .. length()-1 are
\* [idx*batch_size, min((idx+1)*batch_size, n)), each of size 1..batch_size,
\* their concatenation in order is the whole dataset, their sizes sum to n,
\* and every tensor of a call has the size of its slice as leading dimension.
C1_BatchesPartitionDataset ==
  /\ __len__ >= 0
  /\ __len__ * batch_size >= n
  /\ (__len__ - 1) * batch_size < n
  /\ \A k \in 0..(__len__ - 1) :
       /\ maxidx(k) = Min((k + 1) * batch_size, n)
       /\ size(k) = maxidx(k) - k * batch_size
       /\ 1 <= size(k) /\ size(k) <= batch_size
       /\ batch_f1(k) = [i \in 1..size(k) |-> k * batch_size + i - 1]
  /\ CatBatches(__len__) = imgfilenames1
  /\ SumSizes(__len__) = n
  /\ pc # "constructed" =>
       /\ Len(x1) = maxidx(call_idx) - call_idx * batch_size
       /\ TwoLeg => Len(x2) = Len(x1)
       /\ ret.returned => Len(ret.targets) = Len(x1) /\ Len(ret.inputs[1]) = Len(x1)
  /\ Assembled =>
       \A i \in 1..Len(x1) : \A w \in 1..width : \A c \in 1..no_channels :
          x1[i][w][c] # Zero => x1[i][w][c].file = Global(i)

\* C1 witness: the short final batch of n = 3, batch_size = 2 was returned
C1_Witness ==
  /\ pc = "returned" /\ n = 3 /\ batch_size = 2 /\ call_idx = 1
  /\ Len(x1) = 1 /\ x1[1][1][1].file = 2

\* C2 (as claimed): in two-leg mode with rotation, the leg-2 sample at local
\* offset i is the assembled sample shifted by schedule[idx*batch_size + i].
C2_ShiftOfOwnGlobalIndex ==
  (Assembled /\ TwoLeg /\ rotate_data > 0) =>
     \A i \in 1..Len(x2) :
        x2[i] = roll(Assemble(2, Global(i)), PyGet(random_rotate, Global(i)))

\* C3 (as claimed): with rotate_data in {1, 2} the schedule has n entries,
\* each an integer s with 0 <= s < width.
C3_ShiftsBelowWidth ==
  rotate_data \in {1, 2} =>
     /\ Len(random_rotate) = n
     /\ \A i \in 1..n : 0 <= random_rotate[i] /\ random_rotate[i] < width

\* C4: with rotate_data = 2 a call with idx = 0 draws a new shift for every
\* index of [0, n) and assembles its batch from the new schedule; a call with
\* idx # 0 leaves the schedule and the generator untouched and assembles
\* from the schedule as it is.
C4_RegeneratedAtIdxZeroOnly ==
  [][rotate_data = 2 =>
       /\ call_idx' = 0 =>
            /\ rng_draws' = rng_draws + n
            /\ Len(random_rotate') = n
       /\ call_idx' # 0 =>
            /\ random_rotate' = random_rotate
            /\ rng_draws' = rng_draws
       /\ (TwoLeg /\ exc'.line \in {124, 130}) =>
            \A i \in 1..Len(x2') :
               x2'[i] = roll(Assemble(2, batch_f2(call_idx')[i]),
                             PyGet(random_rotate', totalidxs'[i]))]_vars

\* C4 witness: one regeneration since construction (by a call with idx = 0),
\* and the batch last assembled is batch 1 of that pass
C4_Witness ==
  /\ rotate_data = 2 /\ TwoLeg /\ n >= 2
  /\ rng_draws = 2 * n /\ call_idx = 1 /\ exc.line = 130

\* C5: with rotate_data = 1 no call changes the schedule or draws a random
\* number, whatever its idx.
C5_ScheduleFixedInModeOne ==
  [][rotate_data = 1 =>
       /\ random_rotate' = random_rotate
       /\ rng_draws' = rng_draws]_vars

\* C5 witness: batch 0 was requested in mode 1 and the generator still is
\* where construction left it
C5_Witness ==
  /\ rotate_data = 1 /\ pc # "constructed" /\ call_idx = 0
  /\ n >= 2 /\ rng_draws = n /\ Len(random_rotate) = n

\* C6 (as claimed): in two-leg mode a call whose files load (and whose
\* samples fit and whose orientation indices are valid) returns.
C6_TwoLegReturns ==
  (TwoLeg /\ pc # "constructed" /\ exc.line \in {0, 130}) =>
     /\ exc.type # "TypeError"
     /\ ret.returned

\* C7 (as claimed): a batch with an orientation index (cast to integer)
\* outside [0, network_output_size) fails with the index error of the target
\* loop and returns nothing.
C7_OutOfRangeOrientationFails ==
  (Assembled /\ \E i \in 1..Len(x1) :
      IntCast(orientation[Global(i) + 1]) \notin 0..(network_output_size - 1)) =>
     /\ exc = [type |-> "IndexError", line |-> 124]
     /\ ~ret.returned

\* C8: when the target loop completes, the target array has one row per
\* sample of the batch; row j of a sample whose orientation index is in
\* [0, M) has length M, holds function_angle at that index and 0 elsewhere.
C8_TargetRows ==
  /\ (pc # "constructed" /\ exc.line \in {0, 130}) =>
        Len(y) = maxidx(call_idx) - call_idx * batch_size
  /\ \A j \in 1..Len(y) :
        LET o == IntCast(orientation[Global(j) + 1])
        IN  o \in 0..(network_output_size - 1) =>
              /\ Len(y[j]) = network_output_size
              /\ \A p \in 1..network_output_size :
                    y[j][p] = IF p - 1 = o THEN function_angle[Global(j) + 1] ELSE 0
  /\ ret.returned => ret.targets = y

\* C8 witness: a returned batch whose second sample has orientation 1.5
\* (index 1) and function_angle 0.7
C8_Witness ==
  /\ pc = "returned" /\ network_output_size = 2 /\ Len(y) = 2
  /\ orientation[Global(2) + 1] = 3 /\ function_angle[Global(2) + 1] = 7
  /\ y[2] = <<0, 7>>

\* the channel layout stated as the concatenation of the enabled modalities
ExpectedLayout ==
  (IF use_depth THEN << <<"depth", 1>> >> ELSE <<>>)
  \o (IF use_normals THEN [k \in 1..3 |-> <<"normal", k>>] ELSE <<>>)
  \o (IF ~use_class_probabilities THEN <<>>
      ELSE IF use_class_probabilities_pca
        THEN [k \in 1..3 |-> <<"probability_pca", k>>]
        ELSE [k \in 1..20 |-> <<"probability", k>>])
  \o (IF use_intensity THEN << <<"intensity", 1>> >> ELSE <<>>)

\* C9: in an assembled tensor, channel c of every sample holds channel k of
\* modality m where (m, k) is entry c of the concatenation depth(1),
\* normals(3), class probabilities(3 or 20), intensity(1) of the enabled
\* modalities; the channels after it stay zero.
C9_ChannelLayout ==
  Assembled =>
    /\ Len(ExpectedLayout) <= no_channels
    /\ \A i \in 1..Len(x1) : \A w \in 1..width : \A c \in 1..no_channels :
         x1[i][w][c] =
           IF c <= Len(ExpectedLayout)
             THEN [leg |-> 1, file |-> Global(i), m |-> ExpectedLayout[c][1],
                   k |-> ExpectedLayout[c][2], col |-> w]
             ELSE Zero
    /\ \A i \in 1..Len(x2) : \A w \in 1..width : \A c \in 1..no_channels :
         IF c <= Len(ExpectedLayout)
           THEN /\ x2[i][w][c].leg = 2 /\ x2[i][w][c].file = Global(i)
                /\ x2[i][w][c].m = ExpectedLayout[c][1]
                /\ x2[i][w][c].k = ExpectedLayout[c][2]
           ELSE x2[i][w][c] = Zero

\* C9 witness: depth and normals only, four channels, batch returned
C9_Witness ==
  /\ pc = "returned" /\ no_channels = 4
  /\ use_depth /\ use_normals /\ ~use_class_probabilities /\ ~use_intensity
  /\ x1[1][1][1].m = "depth" /\ x1[1][1][2].m = "normal" /\ x1[1][1][4].k = 3

\* C10: with two legs and rotation the totalidx of every leg-2 call lies in
\* [0, n), for every batch and local offset, so the schedule lookup does not
\* raise; and no column of a leg-1 sample is moved.
C10_LookupInBounds ==
  /\ (TwoLeg /\ rotate_data > 0) =>
       /\ \A k \in 0..(__len__ - 1) : \A i \in 0..(size(k) - 1) :
             0 <= totalidx(k, i) /\ totalidx(k, i) < n
       /\ \A i \in 1..Len(totalidxs) : 0 <= totalidxs[i] /\ totalidxs[i] < n
       /\ exc.line # 214
  /\ \A i \in 1..Len(x1) : \A w \in 1..width : \A c \in 1..no_channels :
        x1[i][w][c] # Zero => x1[i][w][c].col = w

\* C10 witness: the short final batch of a two-leg generator with rotation
\* was assembled, one schedule lookup per sample
C10_Witness ==
  /\ TwoLeg /\ rotate_data > 0 /\ exc.line = 130
  /\ call_idx > 0 /\ Len(x1) < batch_size
  /\ Len(totalidxs) = Len(x1) /\ Len(x1) >= 1

====
